---- MODULE Spec2Model ----
(***************************************************************************)
(* Model of snowcamp-docling:                                              *)
(*   QandAFunctions.py      load_pdf, load_markdown, get_prompt, ask_pdf,  *)
(*                          ask_markdown                                   *)
(*   ProcessingFunctions.py CountTokens.format_number                      *)
(*                                                                         *)
(* A Python string is a sequence of fragments (TLA+ strings); concatenation*)
(* is \o.  The collaborators the repository calls but does not contain     *)
(* (PyPDF2, the file system, RecursiveCharacterTextSplitter, ChatOpenAI)   *)
(* are the environment: each of their calls is a choice over the results   *)
(* the call can have (a value, or an exception with a message).            *)
(***************************************************************************)
EXTENDS Integers, Sequences, FiniteSets, TLC

VARIABLES
    pc,              \* position of the run: see PcValues
    kind,            \* which pair of functions runs: "pdf" or "markdown"
    extraction,      \* what the environment did while the source was read
    loadRet,         \* what load_pdf / load_markdown gave its caller
    question,        \* ask_*'s parameter question
    chunks,          \* ask_*: chunks, the page_content of each, in order
    i,               \* ask_*: the loop index of enumerate(chunks), 0-based
    chunk_answers,   \* ask_*: chunk_answers
    chunk_contexts,  \* ask_*: chunk_contexts
    result,          \* what ask_* returned
    calls,           \* the llm collaborator's history: one record per invoke
    num,             \* format_number: its parameter, as decimal digits
    formatted        \* format_number: the string it returned

vars == <<pc, kind, extraction, loadRet, question, chunks, i, chunk_answers,
          chunk_contexts, result, calls, num, formatted>>

askVars == <<chunks, i, chunk_answers, chunk_contexts, result, calls>>
fmtVars == <<num, formatted>>

(***************************************************************************)
(* Bounds of the model.                                                    *)
(***************************************************************************)
MaxChunks == 3     \* most chunks the splitter hands back
MaxPages  == 2     \* most pages of a PDF
MaxDigits == 11    \* most decimal digits of a token count

(***************************************************************************)
(* The small sets the inputs are drawn from.                               *)
(***************************************************************************)
PageTexts  == {<<"p">>, <<"q", "r">>}
FileTexts  == {<<"m">>, <<"m", "n">>}
Latin1Texts == {<<"l">>}
ChunkTexts == {<<"a">>, <<"b", "c">>}
Questions  == {<<"Q?">>}
Answers    == {<<"yes">>, <<"no">>}
ErrMsgs    == {<<"quota">>, <<"timeout">>}
SetupErrMsgs == {<<"api_key must be set">>}
LoadErrMsgs == {<<"No such file">>, <<"EOF marker not found">>}

PcValues == {"start", "loaded", "load_raised", "ask_raised", "loop",
             "calling", "done", "fmt", "fmt_done"}

None == <<>>

NoRet == [status |-> "none", value |-> None]

(***************************************************************************)
(* Helpers on strings.                                                     *)
(***************************************************************************)
RECURSIVE Concat(_)
\* "".join(parts), and the += of load_pdf's loop
Concat(parts) ==
    IF parts = <<>> THEN <<>> ELSE Head(parts) \o Concat(Tail(parts))

RECURSIVE Join(_, _)
\* sep.join(parts)
Join(sep, parts) ==
    IF parts = <<>> THEN <<>>
    ELSE IF Len(parts) = 1 THEN parts[1]
    ELSE parts[1] \o sep \o Join(sep, Tail(parts))

\* s[:n]
Take(s, n) == SubSeq(s, 1, IF Len(s) < n THEN Len(s) ELSE n)

DigitChar == <<"0", "1", "2", "3", "4", "5", "6", "7", "8", "9">>

RECURSIVE StrInt(_)
\* str(n) of an int n >= 0: its decimal digits, one character each
StrInt(n) ==
    IF n < 10 THEN <<DigitChar[n + 1]>>
    ELSE StrInt(n \div 10) \o <<DigitChar[(n % 10) + 1]>>

SeqsUpTo(S, n) == UNION {[1..m -> S] : m \in 0..n}

(***************************************************************************)
(* load_pdf(file_path).                                                    *)
(***************************************************************************)
\* the raw_text the page loop builds: every page's text followed by "\n"
RawText(pages) ==
    Concat([p \in 1..Len(pages) |-> pages[p] \o <<"\n">>])

\* open, PdfReader and every extract_text succeed: return raw_text
LoadPdfOk(pages) ==
    /\ pc = "start"
    /\ kind' = "pdf"
    /\ extraction' = "ok"
    /\ loadRet' = [status |-> "returned", value |-> RawText(pages)]
    /\ pc' = "loaded"
    /\ UNCHANGED <<question, askVars, fmtVars>>

\* anything in the try block raises e: except Exception returns a string
LoadPdfError(msg) ==
    /\ pc = "start"
    /\ kind' = "pdf"
    /\ extraction' = "failed"
    /\ loadRet' = [status |-> "returned",
                   value |-> <<"Error loading PDF: ">> \o msg]
    /\ pc' = "loaded"
    /\ UNCHANGED <<question, askVars, fmtVars>>

(***************************************************************************)
(* load_markdown(markdown_path).                                           *)
(***************************************************************************)
\* the utf-8 read succeeds
LoadMarkdownOk(text) ==
    /\ pc = "start"
    /\ kind' = "markdown"
    /\ extraction' = "ok"
    /\ loadRet' = [status |-> "returned", value |-> text]
    /\ pc' = "loaded"
    /\ UNCHANGED <<question, askVars, fmtVars>>

\* UnicodeDecodeError, and the latin-1 read of the handler succeeds
LoadMarkdownLatin1(text) ==
    /\ pc = "start"
    /\ kind' = "markdown"
    /\ extraction' = "ok"
    /\ loadRet' = [status |-> "returned", value |-> text]
    /\ pc' = "loaded"
    /\ UNCHANGED <<question, askVars, fmtVars>>

\* UnicodeDecodeError, and the open of the handler raises: nothing catches
\* an exception raised inside an except clause, the caller gets it
LoadMarkdownLatin1Raise(msg) ==
    /\ pc = "start"
    /\ kind' = "markdown"
    /\ extraction' = "failed"
    /\ loadRet' = [status |-> "raised", value |-> msg]
    /\ pc' = "load_raised"
    /\ UNCHANGED <<question, askVars, fmtVars>>

\* any other exception e: except Exception returns a string
LoadMarkdownError(msg) ==
    /\ pc = "start"
    /\ kind' = "markdown"
    /\ extraction' = "failed"
    /\ loadRet' = [status |-> "returned",
                   value |-> <<"Error loading markdown: ">> \o msg]
    /\ pc' = "loaded"
    /\ UNCHANGED <<question, askVars, fmtVars>>

(***************************************************************************)
(* get_prompt().format(context=..., input=...).                            *)
(***************************************************************************)
GetPromptFormat(context, input) ==
    <<"Here is the raw content from a PDF document:\n---------------------\n">>
    \o context
    \o <<"\n---------------------\nPlease answer the following question based ONLY on this content:\nQuestion: ">>
    \o input
    \o <<"\nAnswer:\n">>

(***************************************************************************)
(* ask_pdf(content, question) and ask_markdown(content, question): the     *)
(* same statements (they differ in the message of the outer handler).      *)
(* No statement of the loop outside the inner try can raise an Exception,  *)
(* so the outer handler (lines 119-120, 183-184) is never entered.         *)
(***************************************************************************)
\* the arguments of RecursiveCharacterTextSplitter(...)
text_splitter == [chunk_size |-> 15000, chunk_overlap |-> 500]

\* text_splitter.split_documents([doc]): the splitter is a library the
\* repository does not contain; it hands back some list of chunks
SplitDocuments(splitter, content) == SeqsUpTo(ChunkTexts, MaxChunks)

NoResult == [keys |-> {}, answer |-> None]

\* the statements before the loop; content is what the loader returned
AskStart(q) ==
    /\ pc = "loaded"
    /\ question' = q
    /\ chunks' \in SplitDocuments(text_splitter, loadRet.value)
    /\ chunk_answers' = <<>>
    /\ chunk_contexts' = <<>>
    /\ i' = 0
    /\ pc' = "loop"
    /\ UNCHANGED <<kind, extraction, loadRet, result, calls, fmtVars>>

\* a statement before the loop raises (an import, the splitter, ChatOpenAI
\* without its key): they stand outside both try blocks, the caller gets it
AskSetupRaise(msg) ==
    /\ pc = "loaded"
    /\ result' = [keys |-> {"raised"}, answer |-> msg]
    /\ pc' = "ask_raised"
    /\ UNCHANGED <<kind, extraction, loadRet, question, chunks, i,
                   chunk_answers, chunk_contexts, calls, fmtVars>>

\* the loop takes chunk i and llm.invoke is entered with the prompt
Invoke ==
    /\ pc = "loop"
    /\ i < Len(chunks)
    /\ calls' = Append(calls, [index |-> i,
                              prompt |-> GetPromptFormat(chunks[i + 1], question),
                              outcome |-> "pending",
                              text |-> None])
    /\ pc' = "calling"
    /\ UNCHANGED <<kind, extraction, loadRet, question, chunks, i,
                   chunk_answers, chunk_contexts, result, fmtVars>>

\* the error text with the loop index itself
ErrorAnswerZeroBased(idx, msg) ==
    <<"Error processing chunk ">> \o StrInt(idx) \o <<": ">> \o msg

\* f"Error processing chunk {i+1}: {str(e)}"
ErrorAnswer(idx, msg) ==
    <<"Error processing chunk ">> \o StrInt(idx + 1) \o <<": ">> \o msg

\* llm.invoke returns response: both lists grow, the loop goes on
InvokeReturn(ans) ==
    /\ pc = "calling"
    /\ chunk_answers' = Append(chunk_answers, ans)
    /\ chunk_contexts' = Append(chunk_contexts, Take(chunks[i + 1], 500))
    /\ calls' = [calls EXCEPT ![Len(calls)].outcome = "returned",
                              ![Len(calls)].text = ans]
    /\ i' = i + 1
    /\ pc' = "loop"
    /\ UNCHANGED <<kind, extraction, loadRet, question, chunks, result, fmtVars>>

\* without the inner try: the outer handler ends the run with its own dict
InvokeRaiseAborts(msg) ==
    /\ pc = "calling"
    /\ calls' = [calls EXCEPT ![Len(calls)].outcome = "raised",
                              ![Len(calls)].text = msg]
    /\ result' = [keys |-> {"error", "answer"},
                  answer |-> <<"Error processing raw PDF: ">> \o msg]
    /\ pc' = "done"
    /\ UNCHANGED <<kind, extraction, loadRet, question, chunks, i,
                   chunk_answers, chunk_contexts, fmtVars>>

\* with a retry: the same chunk is taken again after an exception
InvokeRaiseRetries(msg) ==
    /\ pc = "calling"
    /\ calls' = [calls EXCEPT ![Len(calls)].outcome = "raised",
                              ![Len(calls)].text = msg]
    /\ pc' = "loop"
    /\ UNCHANGED <<kind, extraction, loadRet, question, chunks, i,
                   chunk_answers, chunk_contexts, result, fmtVars>>

\* llm.invoke raises e: the inner except appends the error text, the loop
\* goes on
InvokeRaise(msg) ==
    /\ pc = "calling"
    /\ chunk_answers' = Append(chunk_answers, ErrorAnswer(i, msg))
    /\ calls' = [calls EXCEPT ![Len(calls)].outcome = "raised",
                              ![Len(calls)].text = msg]
    /\ i' = i + 1
    /\ pc' = "loop"
    /\ UNCHANGED <<kind, extraction, loadRet, question, chunks,
                   chunk_contexts, result, fmtVars>>

\* "\n\n".join([f"Chunk {i+1}: {ans}" for i, ans in enumerate(chunk_answers)])
CombinedAnswer(answers) ==
    Join(<<"\n\n">>,
         [k \in 1..Len(answers) |->
            <<"Chunk ">> \o StrInt((k - 1) + 1) \o <<": ">> \o answers[k]])

\* the loop is exhausted: the answers are combined and returned
AskReturn ==
    /\ pc = "loop"
    /\ i = Len(chunks)
    /\ result' = [keys |-> {"answer"}, answer |-> CombinedAnswer(chunk_answers)]
    /\ pc' = "done"
    /\ UNCHANGED <<kind, extraction, loadRet, question, chunks, i,
                   chunk_answers, chunk_contexts, calls, fmtVars>>

(***************************************************************************)
(* The question-answering run: a loader, then ask_*.                       *)
(***************************************************************************)
Init ==
    /\ pc = "start"
    /\ kind = "none"
    /\ extraction = "none"
    /\ loadRet = NoRet
    /\ question = None
    /\ chunks = <<>>
    /\ i = 0
    /\ chunk_answers = <<>>
    /\ chunk_contexts = <<>>
    /\ result = NoResult
    /\ calls = <<>>
    /\ num = <<0>>
    /\ formatted = None

Next ==
    \/ \E pages \in SeqsUpTo(PageTexts, MaxPages) : LoadPdfOk(pages)
    \/ \E msg \in LoadErrMsgs : LoadPdfError(msg)
    \/ \E text \in FileTexts : LoadMarkdownOk(text)
    \/ \E text \in Latin1Texts : LoadMarkdownLatin1(text)
    \/ \E msg \in LoadErrMsgs : LoadMarkdownLatin1Raise(msg)
    \/ \E msg \in LoadErrMsgs : LoadMarkdownError(msg)
    \/ \E q \in Questions : AskStart(q)
    \/ \E msg \in SetupErrMsgs : AskSetupRaise(msg)
    \/ Invoke
    \/ \E ans \in Answers : InvokeReturn(ans)
    \/ \E msg \in ErrMsgs : InvokeRaise(msg)
    \/ AskReturn

Spec == Init /\ [][Next]_vars

(***************************************************************************)
(* CountTokens.format_number(num).  num is an int >= 0, held as its        *)
(* decimal digits, most significant first, with no leading zero: token     *)
(* counts pass 2^31 - 1, the largest integer TLC computes with.            *)
(***************************************************************************)
RECURSIVE Val(_)
\* the int a digit sequence denotes
Val(ds) ==
    IF ds = <<>> THEN 0
    ELSE Val(SubSeq(ds, 1, Len(ds) - 1)) * 10 + ds[Len(ds)]

RECURSIVE Pow10(_)
Pow10(k) == IF k = 0 THEN 1 ELSE 10 * Pow10(k - 1)

RECURSIVE LexGeq(_, _)
LexGeq(a, b) ==
    IF a = <<>> THEN TRUE
    ELSE IF a[1] # b[1] THEN a[1] > b[1]
    ELSE LexGeq(Tail(a), Tail(b))

\* a >= b on ints held as digits
Geq(a, b) ==
    IF Len(a) # Len(b) THEN Len(a) > Len(b) ELSE LexGeq(a, b)

\* 1_000, 1_000_000, 1_000_000_000
Thousand == <<1, 0, 0, 0>>
Million  == <<1, 0, 0, 0, 0, 0, 0>>
Billion  == <<1, 0, 0, 0, 0, 0, 0, 0, 0, 0>>

RECURSIVE Log2Floor(_)
\* the binary exponent of a float whose integer part is n >= 1
Log2Floor(n) == IF n < 2 THEN 0 ELSE 1 + Log2Floor(n \div 2)

\* 2^e mod 20 for e >= 2: 4, 8, 16, 12, 4, ...
Pow2Mod20(e) == <<16, 12, 4, 8>>[(e % 4) + 1]

\* num / 10^k falls exactly between two tenths: it is (2q+1)/20 for
\* q = floor(10 num / 10^k).  The division gives the nearest float, a
\* 53-bit m with m * 2^-e nearest to (2q+1)/20, e = 52 - floor(log2 hi);
\* the remainder r of (2q+1) * 2^e by 20 says which side m is on: r = 0,
\* the float is exact and .1f rounds half to even; r > 10, the float is
\* above and .1f rounds up; r < 10, it is below and .1f rounds down.
TieRoundsUp(hi, q) ==
    LET r == (((2 * q + 1) % 20) * Pow2Mod20(52 - Log2Floor(hi))) % 20
    IN  IF r = 0 THEN q % 2 = 1 ELSE r > 10

\* f"{num / 10^k:.1f}", for num >= 10^k
OneDecimal(n, k) ==
    LET hi   == Val(SubSeq(n, 1, Len(n) - k))
        lo   == Val(SubSeq(n, Len(n) - k + 1, Len(n)))
        q    == hi * 10 + (lo \div Pow10(k - 1))
        rest == lo % Pow10(k - 1)
        half == 5 * Pow10(k - 2)
        up   == IF rest > half THEN TRUE
                ELSE IF rest < half THEN FALSE
                ELSE TieRoundsUp(hi, q)
        t    == IF up THEN q + 1 ELSE q
    IN  StrInt(t \div 10) \o <<".">> \o StrInt(t % 10)

\* str(num)
StrDigits(n) == [j \in 1..Len(n) |-> DigitChar[n[j] + 1]]

\* with > for >= in the three comparisons
format_number_gt(n) ==
    IF Geq(n, Billion) /\ n # Billion THEN OneDecimal(n, 9) \o <<"B">>
    ELSE IF Geq(n, Million) /\ n # Million THEN OneDecimal(n, 6) \o <<"M">>
    ELSE IF Geq(n, Thousand) /\ n # Thousand THEN OneDecimal(n, 3) \o <<"K">>
    ELSE StrDigits(n)

format_number(n) ==
    IF Geq(n, Billion) THEN OneDecimal(n, 9) \o <<"B">>
    ELSE IF Geq(n, Million) THEN OneDecimal(n, 6) \o <<"M">>
    ELSE IF Geq(n, Thousand) THEN OneDecimal(n, 3) \o <<"K">>
    ELSE StrDigits(n)

\* the token counts format_number is applied to
HeadDigits == {0, 1, 2, 3, 5, 9}
Heads == {h \in SeqsUpTo(HeadDigits, 3) : h # <<>> /\ h[1] # 0}
Tails == {<<>>, <<5>>, <<5, 0>>, <<5, 1>>}
FmtInputs ==
    {<<0>>} \cup
    {h \o [j \in 1..m |-> f] \o t :
        h \in Heads, f \in {0, 9}, m \in 0..(MaxDigits - 5), t \in Tails}

FormatNumber ==
    /\ pc = "fmt"
    /\ formatted' = format_number(num)
    /\ pc' = "fmt_done"
    /\ UNCHANGED <<kind, extraction, loadRet, question, askVars, num>>

InitFmt ==
    /\ pc = "fmt"
    /\ kind = "none"
    /\ extraction = "none"
    /\ loadRet = NoRet
    /\ question = None
    /\ chunks = <<>>
    /\ i = 0
    /\ chunk_answers = <<>>
    /\ chunk_contexts = <<>>
    /\ result = NoResult
    /\ calls = <<>>
    /\ num \in FmtInputs
    /\ formatted = None

NextFmt == FormatNumber

SpecFmt == InitFmt /\ [][NextFmt]_vars

(***************************************************************************)
(* Reading a report back: its entries are the pieces between the           *)
(* blank-line separators (no answer or message of the model holds one).    *)
(***************************************************************************)
RECURSIVE SplitAt(_, _)
SplitAt(s, f) ==
    IF \A j \in 1..Len(s) : s[j] # f THEN <<s>>
    ELSE LET at == CHOOSE j \in 1..Len(s) :
                      s[j] = f /\ \A m \in 1..(j - 1) : s[m] # f
         IN  <<SubSeq(s, 1, at - 1)>> \o SplitAt(SubSeq(s, at + 1, Len(s)), f)

ReportEntries(report) ==
    IF report = <<>> THEN <<>> ELSE SplitAt(report, "\n\n")

EndsWith(s, t) ==
    Len(t) <= Len(s) /\ SubSeq(s, Len(s) - Len(t) + 1, Len(s)) = t

InAsk == pc \in {"loop", "calling", "done"}

(***************************************************************************)
(* C1  Failure isolation.  An exception of the model call for one window   *)
(* never ends the run: the loop moves past that window and can go on;      *)
(* when the run is over it has returned a report (a dict with the one key  *)
(* "answer"), every window was queried with its own prompt, and every      *)
(* window whose call returned has that answer, unchanged, in its entry.    *)
(***************************************************************************)
C1_FailureIsolation ==
    /\ \A k \in 1..Len(calls) :
          calls[k].outcome = "raised" => InAsk /\ i >= k
    /\ pc \in {"loop", "calling"} => ENABLED Next
    /\ pc = "done" =>
          LET entries == ReportEntries(result.answer)
          IN  /\ result.keys = {"answer"}
              /\ Len(calls) = Len(chunks)
              /\ Len(entries) = Len(chunks)
              /\ \A k \in 1..Len(chunks) :
                    /\ calls[k].prompt = GetPromptFormat(chunks[k], question)
                    /\ calls[k].outcome = "returned" =>
                          EndsWith(entries[k], <<": ">> \o calls[k].text)

\* window 2 of 3 raised, windows 1 and 3 returned, and the run is over
C1_Witness ==
    /\ pc = "done"
    /\ Len(chunks) = 3
    /\ calls[1].outcome = "returned"
    /\ calls[2].outcome = "raised"
    /\ calls[3].outcome = "returned"

(***************************************************************************)
(* C2  No entry is dropped and order is kept.  The report of a run over N  *)
(* windows has exactly N entries joined by a blank line; entry k is of the *)
(* k-th window and reads "Chunk k: <answer>" when its call returned and    *)
(* "Chunk k: Error processing chunk k: <message>" when it raised.          *)
(***************************************************************************)
C2_ReportEntries ==
    pc = "done" =>
        LET entries == ReportEntries(result.answer)
            label(k) == <<"Chunk ">> \o StrInt(k) \o <<": ">>
        IN  /\ Len(entries) = Len(chunks)
            /\ result.answer = Join(<<"\n\n">>, entries)
            /\ \A k \in 1..Len(chunks) :
                  /\ calls[k].index = k - 1
                  /\ calls[k].prompt = GetPromptFormat(chunks[k], question)
                  /\ calls[k].outcome = "returned" =>
                        entries[k] = label(k) \o calls[k].text
                  /\ calls[k].outcome = "raised" =>
                        entries[k] = label(k) \o <<"Error processing chunk ">>
                                     \o StrInt(k) \o <<": ">> \o calls[k].text

\* a finished run whose first window failed and whose second one succeeded
C2_Witness ==
    /\ pc = "done"
    /\ Len(chunks) >= 2
    /\ calls[1].outcome = "raised"
    /\ calls[2].outcome = "returned"
    /\ chunks[1] # chunks[2]

(***************************************************************************)
(* C3  One model call per window, in order, one at a time, no retry.  The  *)
(* k-th call is for window k; a call is entered only when every earlier    *)
(* one has returned or raised; a finished run over N windows made N calls. *)
(***************************************************************************)
C3_OneCallPerWindow ==
    /\ Len(calls) = i + (IF pc = "calling" THEN 1 ELSE 0)
    /\ Len(calls) <= Len(chunks)
    /\ \A k \in 1..Len(calls) :
          /\ calls[k].index = k - 1
          /\ calls[k].outcome = "pending" => k = Len(calls) /\ pc = "calling"
    /\ pc = "done" => Len(calls) = Len(chunks)

\* the third call is in flight after one call returned and one raised
C3_Witness ==
    /\ pc = "calling"
    /\ Len(calls) = 3
    /\ calls[1].outcome = "raised"
    /\ calls[2].outcome = "returned"

(***************************************************************************)
(* C5  A failure to produce the document body reaches the caller as an     *)
(* exception: after a failed extraction the loader has not returned a      *)
(* value, and nothing is split or sent to the model.                       *)
(***************************************************************************)
C5_ExtractionErrorPropagates ==
    extraction = "failed" =>
        /\ loadRet.status = "raised"
        /\ ~InAsk

(***************************************************************************)
(* C10  format_number by magnitude.  n >= 10^9 gives n/10^9 to one decimal *)
(* and "B", 10^6 <= n < 10^9 gives n/10^6 to one decimal and "M",          *)
(* 10^3 <= n < 10^6 gives n/10^3 to one decimal and "K", and n < 10^3 the  *)
(* plain digits; 1_500_000 -> "1.5M", 999 -> "999",                        *)
(* 2_300_000_000 -> "2.3B".  "To one decimal": the number printed is a     *)
(* tenth nearest to the quotient.                                          *)
(***************************************************************************)
CharVal(c) == CHOOSE d \in 0..9 : DigitChar[d + 1] = c

IsDigits(cs) ==
    /\ cs # <<>>
    /\ \A j \in 1..Len(cs) : \E d \in 0..9 : DigitChar[d + 1] = cs[j]
    /\ Len(cs) > 1 => cs[1] # "0"

\* out is "<digits>.<digit><suffix>" and its number, in tenths, is within
\* half a tenth of n / 10^k
NearestTenth(n, k, suffix, out) ==
    LET len  == Len(out)
        ip   == SubSeq(out, 1, len - 3)
        hi   == Val(SubSeq(n, 1, Len(n) - k))
        lo   == Val(SubSeq(n, Len(n) - k + 1, Len(n)))
    IN  /\ len >= 4
        /\ out[len] = suffix
        /\ out[len - 2] = "."
        /\ IsDigits(ip)
        /\ IsDigits(<<out[len - 1]>>)
        /\ LET t == 10 * Val([j \in 1..Len(ip) |-> CharVal(ip[j])])
                    + CharVal(out[len - 1])
               d == t - 10 * hi
           IN  /\ d \in 0..10
               /\ 2 * (lo - d * Pow10(k - 1)) <= Pow10(k - 1)
               /\ 2 * (d * Pow10(k - 1) - lo) <= Pow10(k - 1)

====
